---- MODULE Spec2Model ----
(***************************************************************************)
(* A model of Robot (src/plumes/src/simulation_agent.py): the planning     *)
(* loop `planner`, myopic action selection `choose_trajectory`, the        *)
(* delegation to the tree search, `collect_observations`, `predict_max`    *)
(* and the terminal export.  The agent's fields are the variables; the     *)
(* collaborators (path generator, acquisition function, environment        *)
(* sampler, tree search) are inputs drawn from small sets.                 *)
(*                                                                         *)
(* A reward is an integer or not-a-number: [nan, v].  Sampled values are   *)
(* integers.  The waypoints lie on the corners of a 3 x 4 rectangle, so    *)
(* every Euclidean distance the model meets is the square root of a        *)
(* perfect square.  The two plots planner draws in every tenth iteration   *)
(* change no field, but they call the acquisition function and the         *)
(* predictor, and loop over the recorded maxima; what they draw is left    *)
(* out, an exception of these calls and of that loop is not.               *)
(*                                                                         *)
(* Spec starts when __init__ has returned or raised and explores the calls *)
(* of planner; SpecConstruct runs __init__ step by step on every kernel    *)
(* setting; SpecAlias lets the tree search write to the belief it is       *)
(* handed; SpecTwice runs the myopic selection twice on the same           *)
(* responses.                                                              *)
(***************************************************************************)
EXTENDS Integers, Sequences, FiniteSets, TLC

VARIABLES
    constructed,      \* whether __init__ returned an agent
    f_rew,            \* self.f_rew
    nonmyopic,        \* self.nonmyopic
    dim,              \* self.dim
    prior,            \* kwargs['prior_dataset'], as a sequence of (x, z); <<>> is None
    kernel,           \* self.kernel
    kernel_dataset,   \* whether kwargs['kernel_dataset'] is not None
    kernel_file,      \* whether kwargs['kernel_file'] is not None
    resolved,         \* the kernel branches __init__ has run, in order
    GP,               \* self.GP.xvals / self.GP.zvals, as a sequence of [x, z]; <<>> is None
    loc,              \* self.loc (x, y)
    time,             \* self.time
    current_max,      \* self.current_max
    current_max_loc,  \* self.current_max_loc
    max_val,          \* self.max_val
    max_locs,         \* self.max_locs
    has_history,      \* whether self.trajectory and self.dist exist yet
    trajectory,       \* self.trajectory (unread while ~has_history)
    dist,             \* self.dist (unread while ~has_history)
    pc,               \* where the caller / planner stands
    err,              \* the exception that left planner, "" if none
    T,                \* planner's argument
    t,                \* the loop variable of planner
    start_loc,        \* self.loc when planner was entered
    pred,             \* (pred_loc, pred_val) of this iteration
    param,            \* the reward parameter built in this iteration
    actions,          \* all_paths of this iteration
    value,            \* all_values of this iteration
    raised_at,        \* 1 + the key whose scoring raised in this iteration, 0 if none
    fallback,         \* whether the except branch of choose_trajectory ran
    pool,             \* the keys handed to the random.choice that returned
    best_key,         \* best_key of choose_trajectory, -1 if unbound
    sampling_path,    \* sampling_path of this iteration: [some, path]
    best_val,         \* best_val of this iteration
    sel_pose,         \* the pose handed to the action selection of this iteration
    twin_key,         \* best_key of a second run on the same responses, -1 if none
    failed,           \* the collaborator that raised outside the scoring loop of
                      \* choose_trajectory (raised_at has that one), "" if none
    metrics,          \* the calls of self.eval.update_metrics, in order
    log,              \* the levels of the events handed to the logger
    exported,         \* what np.savetxt wrote: [some, rows]
    iters             \* loop iterations started so far, over all calls

vars == <<constructed, f_rew, nonmyopic, dim, prior, kernel, kernel_dataset,
          kernel_file, resolved, GP, loc, time,
          current_max, current_max_loc, max_val, max_locs, has_history,
          trajectory, dist, pc, err, T, t, start_loc, pred, param, actions,
          value, raised_at, fallback, pool, best_key, sampling_path, best_val,
          sel_pose, twin_key, failed, metrics, log, exported, iters>>

config == <<constructed, f_rew, nonmyopic, dim, prior, kernel, kernel_dataset,
            kernel_file, resolved>>
agent  == <<GP, loc, time, current_max, current_max_loc, max_val, max_locs,
            has_history, trajectory, dist>>
locals == <<pred, param, actions, value, raised_at, fallback, pool, best_key,
            sampling_path, best_val, sel_pose, twin_key>>

----------------------------------------------------------------------------
(* Bounds of the model. *)

\* Loop iterations of planner, summed over all its calls.
MaxIter == 2
\* Most candidates the path generator returns in one iteration.
MaxCand == 3

----------------------------------------------------------------------------
(* Floats. *)

NaN == [nan |-> TRUE, v |-> 0]
Num(n) == [nan |-> FALSE, v |-> n]

\* a == b on floats: false as soon as one side is not-a-number.
FloatEq(a, b) == ~a.nan /\ ~b.nan /\ a.v = b.v

\* The rewards the acquisition function returns.
Scores == {Num(1), Num(3), NaN}
\* The values the environment sampler returns.
Samples == {-1001, 5}

\* self.current_max after __init__.
SentinelMax == -1000

None == "None"
NoParam == [kind |-> "none", v |-> 0]
NonePath == [some |-> FALSE, path |-> <<>>]
SomePath(p) == [some |-> TRUE, path |-> p]
EmptyMap == [k \in {} |-> 0]

\* The trajectories the path generator and the tree search draw from.
PathMenu == << << <<3, 0>>, <<3, 4>> >>,
               << <<0, 0>>, <<0, 4>>, <<3, 4>> >>,
               << <<0, 4>> >> >>

\* The prior datasets of the model: none, or one observation.
PriorFor(d) ==
    {<<>>, << [x |-> IF d = 2 THEN <<3, 4>>
                     ELSE IF d = 3 THEN <<3, 4, 0>> ELSE <<3, 4, 0, 0>>,
               z |-> 7] >>}

\* The tags __init__ binds an acquisition function to.
RewardTags == {"mean", "info_gain", "mes", "exp_improve", "gumbel"}
\* The tags a caller passes: the five, and one the docstring of __init__
\* lists although no branch binds it.
TagInputs == RewardTags \cup {"hotspot_info"}

\* The dimensions planner and predict_max have a branch for.
Dims == {2, 3}
\* The dimensions a caller passes.
DimInputs == Dims \cup {4}

----------------------------------------------------------------------------
(* __init__ *)

\* As Constructs, with the else branch of the dispatch left out.
ConstructsAnyTag(tag) == TRUE

\* Whether __init__ returns: the else branch of the dispatch on f_rew
\* raises ValueError; kwargs['dimension'] is stored unchecked.
Constructs(tag) == tag \in RewardTags

\* As FreshHistory, with the history created by __init__.
FreshHistoryCreated == TRUE

\* Whether self.trajectory and self.dist exist when __init__ returns: it
\* assigns neither; planner does, on entry.
FreshHistory == FALSE

\* The kernels a caller names.
Kernels == {"rbf", "matern"}

\* As KernelBranch, fitting from a kernel dataset whatever the kernel.
KernelBranchAnyKernel(kd, pd, k, kf) ==
    IF kd /\ pd THEN "joint_fit"
    ELSE IF kd THEN "kernel_fit"
    ELSE IF kf THEN "load"
    ELSE "given"

\* The if / elif chain on the kernel information: train on the prior and
\* the kernel dataset together, train on the kernel dataset, load the
\* kernel file, or keep the values given; both fits ask for kernel 'rbf'.
KernelBranch(kd, pd, k, kf) ==
    IF kd /\ pd /\ k = "rbf" THEN "joint_fit"
    ELSE IF kd /\ k = "rbf" THEN "kernel_fit"
    ELSE IF kf THEN "load"
    ELSE "given"

\* What __init__ leaves in the fields that no claim on construction reads,
\* and the caller's side of the run before the first call of planner.
FreshFields ==
    /\ loc = <<0, 0>>
    /\ time = 0
    /\ current_max = SentinelMax
    /\ current_max_loc = <<0, 0>>
    /\ max_val = None
    /\ max_locs = None
    /\ has_history = FreshHistory
    /\ trajectory = <<>>
    /\ dist = 0
    /\ T = 0
    /\ t = 0
    /\ start_loc = <<0, 0>>
    /\ pred = [loc |-> <<0, 0>>, val |-> 0, predicted |-> FALSE]
    /\ param = NoParam
    /\ actions = EmptyMap
    /\ value = EmptyMap
    /\ raised_at = 0
    /\ fallback = FALSE
    /\ pool = {}
    /\ best_key = -1
    /\ sampling_path = NonePath
    /\ best_val = NaN
    /\ sel_pose = <<0, 0>>
    /\ twin_key = -1
    /\ failed = ""
    /\ metrics = <<>>
    /\ log = <<>>
    /\ exported = [some |-> FALSE, rows |-> <<>>]
    /\ iters = 0

\* The state when __init__ has returned or raised.  The runs of planner
\* are explored for one kernel setting: kernel 'rbf', no kernel dataset, no
\* kernel file.
Init ==
    /\ f_rew \in TagInputs
    /\ nonmyopic \in BOOLEAN
    /\ dim \in DimInputs
    /\ prior \in PriorFor(dim)
    /\ kernel = "rbf"
    /\ kernel_dataset = FALSE
    /\ kernel_file = FALSE
    /\ resolved = <<KernelBranch(FALSE, prior # <<>>, "rbf", FALSE)>>
    /\ constructed = Constructs(f_rew)
    /\ GP = prior
    /\ pc = IF Constructs(f_rew) THEN "idle" ELSE "error"
    /\ err = IF Constructs(f_rew) THEN "" ELSE "ValueError"
    /\ FreshFields

----------------------------------------------------------------------------
(* choose_trajectory *)

\* The list generate_trajectories returns: the first n trajectories of the
\* menu (taken round), keyed 0 .. n-1 as enumerate keys them.
Candidates(n) ==
    [k \in 0..(n - 1) |-> PathMenu[(k % Len(PathMenu)) + 1]]

\* The reward parameter of the myopic mode.
DirectParam ==
    CASE f_rew = "mes" -> [kind |-> "sample", v |-> 0]
      [] f_rew = "exp_improve" -> [kind |-> "list", v |-> current_max]
      [] f_rew = "gumbel" -> [kind |-> "gumbel_sample", v |-> 0]
      [] OTHER -> NoParam

\* As LookaheadParam, with the samples of the myopic mode.
LookaheadParamWithSamples ==
    CASE f_rew = "mes" -> [kind |-> "sample", v |-> 0]
      [] f_rew = "exp_improve" -> [kind |-> "scalar", v |-> current_max]
      [] f_rew = "gumbel" -> [kind |-> "gumbel_sample", v |-> 0]
      [] OTHER -> NoParam

\* The reward parameter handed to the tree search.
LookaheadParam ==
    IF f_rew = "exp_improve" THEN [kind |-> "scalar", v |-> current_max]
    ELSE NoParam

\* As Scoring, with the evaluator's error caught and stored as not-a-number.
ScoringFailOpen(scores, raise) ==
    [value |-> [k \in DOMAIN scores |->
                    IF k = raise - 1 THEN NaN ELSE scores[k]],
     raised |-> FALSE]

\* The scoring loop: the acquisition function is called on each candidate
\* in key order, outside any try; raise > 0 says that the call on key
\* raise - 1 raises, and the exception leaves the loop with the earlier
\* scores stored.
Scoring(scores, raise) ==
    IF raise = 0 THEN [value |-> scores, raised |-> FALSE]
    ELSE [value |-> [k \in 0..(raise - 2) |-> scores[k]], raised |-> TRUE]

\* What the acquisition function answers on n candidates when its call on
\* key raise - 1 raises (raise = 0: no call raises): a score for each key
\* it is asked about; the keys from the raising one on are not asked.
EvaluatorAnswers(n, raise) ==
    {s \in [0..(n - 1) -> Scores] :
        raise > 0 => \A k \in (raise - 1)..(n - 1) : s[k] = NaN}

NumericKeys(val) == {k \in DOMAIN val : ~val[k].nan}

\* As NanMax, with np.max: one not-a-number makes the result not-a-number.
NanMaxAsMax(val) ==
    IF NumericKeys(val) # DOMAIN val THEN NaN
    ELSE Num(CHOOSE m \in {val[k].v : k \in NumericKeys(val)} :
                 \A k \in NumericKeys(val) : val[k].v <= m)

\* np.nanmax(value.values()) of a non-empty dict: the largest score that is
\* a number, not-a-number if none is.
NanMax(val) ==
    IF NumericKeys(val) = {} THEN NaN
    ELSE Num(CHOOSE m \in {val[k].v : k \in NumericKeys(val)} :
                 \A k \in NumericKeys(val) : val[k].v <= m)

\* The list of the try branch: the keys whose score equals the nanmax.
TryPool(val) ==
    LET largest == NanMax(val)
    IN {k \in DOMAIN val : FloatEq(val[k], largest)}

\* As FallbackPool, always the first key.
FallbackPoolFirst(val) == {k \in DOMAIN val : k = 0}

\* The list of the except branch: every key.
FallbackPool(val) == {k \in DOMAIN val : TRUE}

\* random.choice raises IndexError on the empty list of the try branch, and
\* the bare except catches it.
TakesFallback(val) == TryPool(val) = {}

\* The default predict_max returns on an empty belief.
DefaultPred == [loc |-> <<0, 0>>, val |-> 0, predicted |-> FALSE]

\* As PredictMax, without the test of GP.xvals against None.
PredictMaxAlways == [loc |-> <<3, 4>>, val |-> 7, predicted |-> TRUE]

\* predict_max: the default without a prediction when the belief is empty,
\* else the predictor's answer on the grid.
PredictMax ==
    IF GP = <<>> THEN DefaultPred
    ELSE [loc |-> <<3, 4>>, val |-> 7, predicted |-> TRUE]

\* Whether predict_max reaches GP.predict_value: the belief is not empty
\* and `data` is bound, which only the branches for 2 and 3 dimensions do.
CallsPredictor == GP # <<>> /\ dim \in Dims

\* The exception that leaves predict_max, "" if it returns: `data` is
\* unbound in any other dimension, and an exception of GP.predict_value
\* (pf) is not caught.
PredictMaxRaises(pf) ==
    IF GP = <<>> THEN ""
    ELSE IF dim \notin Dims THEN "UnboundLocalError"
    ELSE IF pf THEN "PredictorError" ELSE ""

\* As UpdateMetrics, called after the pose update: the record carries the
\* final waypoint of the trajectory as the pose.
UpdateMetricsAfterMove(path, gp) ==
    metrics' = Append(metrics, [t |-> t, nobs |-> Len(gp),
                                loc |-> IF path.some
                                        THEN path.path[Len(path.path)]
                                        ELSE loc,
                                path |-> path, dist |-> dist,
                                cmax |-> current_max])

\* self.eval.update_metrics(t, GP, loc, sampling_path, ..., dist): the call
\* follows the action selection and comes before sampling_path is tested
\* against None; gp is self.GP as it is at the call, after the action
\* selection.  The record keeps what the claims read of its arguments.
UpdateMetrics(path, gp) ==
    metrics' = Append(metrics, [t |-> t, nobs |-> Len(gp), loc |-> loc,
                                path |-> path, dist |-> dist,
                                cmax |-> current_max])

Raise(e) == pc' = "error" /\ err' = e /\ UNCHANGED metrics

\* The head of an iteration: the time, the first log event, predict_max and
\* the second log event.  pf says that GP.predict_value raises.
IterationHead(pf) ==
    /\ time' = t
    /\ iters' = iters + 1
    /\ IF PredictMaxRaises(pf) # ""
       THEN /\ log' = Append(log, "info")
            /\ pred' = [DefaultPred EXCEPT !.predicted = CallsPredictor]
            /\ Raise(PredictMaxRaises(pf))
       ELSE /\ log' = log \o <<"info", "info">>
            /\ pred' = PredictMax

\* random.choice(population) on a non-empty list: the module-level
\* generator of `random`, which nothing in the agent seeds, may return any
\* element.
RandomChoice(population) == population

\* choose_trajectory(t): the parameter, the candidates, the scoring loop
\* and the random choice; then planner's call of update_metrics.  With
\* rerun, a second run of the same configuration on the same responses
\* makes its own call of random.choice on the same list.
ChooseTrajectory(rerun) ==
    /\ param' = DirectParam
    /\ sel_pose' = loc
    /\ IF f_rew = "mes"
       THEN max_val' = "maxima_values" /\ max_locs' = "maxima_locations"
       ELSE UNCHANGED <<max_val, max_locs>>
    /\ \E n \in 0..MaxCand :
       \E raise \in 0..n :
       \E scores \in EvaluatorAnswers(n, raise) :
          LET sc == Scoring(scores, raise) IN
          /\ actions' = Candidates(n)
          /\ value' = sc.value
          /\ raised_at' = raise
          /\ IF sc.raised
             THEN /\ Raise("AcquisitionError")
                  /\ UNCHANGED <<fallback, pool, best_key, sampling_path,
                                 best_val, twin_key>>
             ELSE LET fb == TakesFallback(sc.value)
                      keys == IF fb THEN FallbackPool(sc.value)
                              ELSE TryPool(sc.value)
                  IN /\ fallback' = fb
                     /\ IF keys = {}
                        THEN /\ Raise("IndexError")
                             /\ UNCHANGED <<pool, best_key, sampling_path,
                                            best_val, twin_key>>
                        ELSE /\ pool' = keys
                             /\ \E k \in RandomChoice(keys) :
                                  /\ best_key' = k
                                  /\ sampling_path' =
                                       SomePath(Candidates(n)[k])
                                  /\ best_val' = sc.value[k]
                                  /\ UpdateMetrics(SomePath(Candidates(n)[k]),
                                                   GP)
                             /\ twin_key' \in IF rerun THEN RandomChoice(keys)
                                               ELSE {-1}
                             /\ pc' = "execute"
                             /\ err' = err

\* One iteration of planner up to the call of update_metrics, with
\* choose_trajectory as the action selection.
SelectDirectWith(rerun) ==
    /\ pc = "select"
    /\ ~nonmyopic
    /\ \E pf \in {FALSE, CallsPredictor} :
         /\ IterationHead(pf)
         /\ failed' = IF pf THEN "PredictorError" ELSE failed
         /\ IF PredictMaxRaises(pf) # ""
            THEN UNCHANGED <<param, actions, value, raised_at, fallback,
                             pool, best_key, sampling_path, best_val,
                             sel_pose, twin_key, max_val, max_locs>>
            ELSE ChooseTrajectory(rerun)
    /\ UNCHANGED <<config, GP, loc, current_max, current_max_loc,
                   has_history, trajectory, dist, T, t, start_loc, exported>>

SelectDirect == SelectDirectWith(FALSE)

SelectDirectTwice == SelectDirectWith(TRUE)

\* What the tree search may return as its trajectory.
PlannerPaths == {NonePath} \cup {SomePath(PathMenu[i]) : i \in DOMAIN PathMenu}

\* The fifth and the sixth result of the tree search: the sampled maxima
\* values, then their locations.
PlannerMaxima == <<"maxima_values", "maxima_locations">>

\* The observations a tree search adds to the belief object it is handed:
\* none when it keeps to a copy, as the planner's interface asks.
NoRolloutWrites == {<<>>}
\* The same for any tree search: none, or one hypothetical observation.
AnyRolloutWrites ==
    {<<>>, << [x |-> IF dim = 2 THEN <<0, 4>> ELSE <<0, 4, t>>, z |-> 5] >>}

\* belief=self.GP hands the tree search the agent's own belief object:
\* what the search adds to it is in self.GP when the search returns.
BeliefAfterPlanner(gp, written) == gp \o written

\* One iteration of planner up to the call of update_metrics, with the
\* tree search as the action selection; writes are the observations the
\* search may add to the belief it is handed.
SelectLookaheadWith(writes) ==
    /\ pc = "select"
    /\ nonmyopic
    /\ \E pf \in {FALSE, CallsPredictor} :
         /\ IterationHead(pf)
         /\ IF PredictMaxRaises(pf) # ""
            THEN /\ failed' = IF pf THEN "PredictorError" ELSE failed
                 /\ UNCHANGED <<param, sampling_path, best_val, sel_pose,
                                max_val, max_locs, GP>>
            ELSE /\ param' = LookaheadParam
                 /\ sel_pose' = loc
                 /\ \E written \in writes :
                      /\ GP' = BeliefAfterPlanner(GP, written)
                      /\ \/ /\ Raise("PlannerError")
                            /\ failed' = "PlannerError"
                            /\ UNCHANGED <<sampling_path, best_val, max_val,
                                           max_locs>>
                         \/ /\ \E p \in PlannerPaths :
                               \E bv \in Scores :
                                 /\ sampling_path' = p
                                 /\ best_val' = bv
                                 /\ UpdateMetrics(
                                        p, BeliefAfterPlanner(GP, written))
                            /\ max_locs' = PlannerMaxima[1]
                            /\ max_val' = PlannerMaxima[2]
                            /\ pc' = "execute"
                            /\ err' = err
                            /\ failed' = failed
    /\ actions' = EmptyMap
    /\ value' = EmptyMap
    /\ UNCHANGED <<config, loc, current_max, current_max_loc, has_history,
                   trajectory, dist, T, t, start_loc, raised_at, fallback,
                   pool, best_key, twin_key, exported>>

SelectLookahead == SelectLookaheadWith(NoRolloutWrites)

SelectLookaheadAny == SelectLookaheadWith(AnyRolloutWrites)

----------------------------------------------------------------------------
(* planner: metrics, execution, export *)

\* xlocs: the waypoints' first two columns, and t as a third in 3-D.
XLocs(path) ==
    [i \in 1..Len(path) |->
        IF dim = 2 THEN <<path[i][1], path[i][2]>>
        ELSE <<path[i][1], path[i][2], t>>]

\* As SampledLocs, with no waypoint left out.
SampledLocsAll(xobs) == xobs

\* xobs[:-1,:]: every waypoint but the last.
SampledLocs(xobs) == SubSeq(xobs, 1, Len(xobs) - 1)

\* xobs[1:,:]: every waypoint but the first.
PairedLocs(xobs) == SubSeq(xobs, 2, Len(xobs))

\* What GP.add_data(xobs, zobs) leaves in the belief.
AddData(gp, xobs, zobs) ==
    gp \o [i \in 1..Len(xobs) |-> [x |-> xobs[i], z |-> zobs[i]]]

\* As TrackMax, taking the last sample instead of the larger one.
TrackMaxLastWins(m, zobs, xs) ==
    IF zobs = <<>> \/ xs = <<>> THEN m
    ELSE [val |-> zobs[Len(zobs)], loc |-> m.loc]

\* The loop over zip(zobs, xobs[1:,:]): a sample replaces the tracked
\* maximum when it is strictly larger, and the location stored with it is
\* the zip partner's first two columns.
RECURSIVE TrackMax(_, _, _)
TrackMax(m, zobs, xs) ==
    IF zobs = <<>> \/ xs = <<>> THEN m
    ELSE TrackMax(IF zobs[1] > m.val
                  THEN [val |-> zobs[1], loc |-> <<xs[1][1], xs[1][2]>>]
                  ELSE m,
                  Tail(zobs), Tail(xs))

\* The integer square root, exact on the perfect squares of the model.
ISqrt(n) == CHOOSE r \in 0..n : r * r <= n /\ n < (r + 1) * (r + 1)

\* np.sqrt((start[0]-m[0])**2 + (start[1]-m[1])**2)
SegLen(a, b) ==
    ISqrt((a[1] - b[1]) * (a[1] - b[1]) + (a[2] - b[2]) * (a[2] - b[2]))

\* As PathDist, measuring every waypoint from the pre-move pose.
RECURSIVE PathDistFromStart(_, _)
PathDistFromStart(start, path) ==
    IF path = <<>> THEN 0
    ELSE SegLen(start, path[1]) + PathDistFromStart(start, Tail(path))

\* The loop over sampling_path: start is the pre-move pose, then each
\* waypoint in turn.
RECURSIVE PathDist(_, _)
PathDist(start, path) ==
    IF path = <<>> THEN 0
    ELSE SegLen(start, path[1]) + PathDist(path[1], Tail(path))

\* As NewPose, with the first waypoint.
NewPoseFirst(path) == path[1]

\* self.loc = sampling_path[-1,:]
NewPose(path) == path[Len(path)]

ClearLocals ==
    /\ pred' = [loc |-> <<0, 0>>, val |-> 0, predicted |-> FALSE]
    /\ param' = NoParam
    /\ actions' = EmptyMap
    /\ value' = EmptyMap
    /\ raised_at' = 0
    /\ fallback' = FALSE
    /\ pool' = {}
    /\ best_key' = -1
    /\ sampling_path' = NonePath
    /\ best_val' = NaN
    /\ sel_pose' = <<0, 0>>
    /\ twin_key' = -1

\* As MeasureEnvironment, with the sampler's exception caught and zeros
\* put in place of the values.
MeasureEnvironmentDefault(xs, sf, zobs) ==
    [raised |-> "", z |-> IF sf THEN [i \in 1..Len(xs) |-> 0] ELSE zobs]

\* self.measure_environment(xobs[:-1,:], self.time), called outside any
\* try: its exception (sf) leaves collect_observations, else its values
\* are the batch.
MeasureEnvironment(xs, sf, zobs) ==
    IF sf THEN [raised |-> "SamplerError", z |-> <<>>]
    ELSE [raised |-> "", z |-> zobs]

\* planner draws its two plots in the iterations whose index is a
\* multiple of this.
PlotEvery == 10

\* if t % 10 == 0, before each of the two plots.
Plots(i) == i % PlotEvery = 0

\* What the loops `for coord in self.max_locs` of the plots may meet in
\* ml: nothing to draw when it is None, a row of two coordinates per
\* maximum when it holds the locations of sample_max_vals, and, when it
\* holds the fifth result of the tree search, maxima values: none, a list
\* of floats, a one-dimensional array of scalars, or a column of
\* one-element rows.
MaximaShapes(ml) ==
    IF ml = None THEN {"none"}
    ELSE IF ml = PlannerMaxima[1]
    THEN {"empty", "floats", "scalars", "column"}
    ELSE {"pairs"}

\* for coord in self.max_locs: plt.scatter(coord[0], coord[1], ...): a
\* float cannot be indexed (TypeError), the scalar element of an array
\* takes no index and a one-element row has no index 1 (IndexError).
ScatterMaxima(shape) ==
    CASE shape = "floats" -> "TypeError"
      [] shape = "scalars" -> "IndexError"
      [] shape = "column" -> "IndexError"
      [] OTHER -> ""

\* visualize_reward: the parameter by reward variant (for 'gumbel' a fresh
\* sample of maxima), then the acquisition function on the grid, outside
\* any try: an exception of these calls (af) leaves it; else the loop over
\* self.max_locs, which raises on what it cannot index.
VisualizeReward(af, shape) ==
    IF af THEN "AcquisitionError" ELSE ScatterMaxima(shape)

\* visualize_trajectory: GP.predict_value on the grid, whatever the belief
\* holds and outside any try: its exception (vf) leaves it, else it draws.
\* Its loop over maxes meets the self.max_locs that visualize_reward has
\* drawn in the same iteration.
VisualizeTrajectory(vf) == IF vf THEN "PredictorError" ELSE ""

\* The rest of the iteration: the break on a None path, else the waypoints
\* by dimension, in every tenth iteration the plot of the reward,
\* collect_observations, the history, the distance, in every tenth
\* iteration the plot of the trajectories, and last the new pose.  An
\* exception of the second plot finds the observations, the running
\* maximum, the history and the distance of this iteration in place and
\* the pose not moved.  The iteration's locals are dead once it ends, by
\* the end of the loop body or by an exception, and are cleared.
Execute ==
    /\ pc = "execute"
    /\ IF ~sampling_path.some
       THEN /\ pc' = "export"
            /\ UNCHANGED <<agent, locals, t, err, failed>>
       ELSE IF dim \notin Dims
       THEN /\ pc' = "error"
            /\ err' = "ValueError"
            /\ ClearLocals
            /\ UNCHANGED <<agent, t, failed>>
       ELSE LET path == sampling_path.path
                xobs == XLocs(path)
                xs   == SampledLocs(xobs)
            IN \E walked \in {PathDist(loc, path)} :
               \E af \in {FALSE, Plots(t)} :
               \E shape \in IF Plots(t) /\ ~af THEN MaximaShapes(max_locs)
                            ELSE {"none"} :
               \E sf \in IF af \/ ScatterMaxima(shape) # "" THEN {FALSE}
                         ELSE BOOLEAN :
               \E vf \in IF af \/ ScatterMaxima(shape) # "" \/ sf
                         THEN {FALSE} ELSE {FALSE, Plots(t)} :
               \E zobs \in IF af \/ ScatterMaxima(shape) # "" \/ sf
                           THEN {<<>>} ELSE [1..Len(xs) -> Samples] :
               \E res \in {MeasureEnvironment(xs, sf, zobs)} :
               \E m \in {TrackMax([val |-> current_max,
                                   loc |-> current_max_loc],
                                  res.z, PairedLocs(xobs))} :
                    /\ ClearLocals
                    /\ failed' = IF af THEN "AcquisitionError"
                                 ELSE IF sf THEN "SamplerError"
                                 ELSE IF vf THEN "PredictorError"
                                 ELSE failed
                    /\ IF VisualizeReward(af, shape) # ""
                       THEN /\ pc' = "error"
                            /\ err' = VisualizeReward(af, shape)
                            /\ UNCHANGED <<agent, t>>
                       ELSE IF res.raised # ""
                       THEN /\ pc' = "error"
                            /\ err' = res.raised
                            /\ UNCHANGED <<agent, t>>
                       ELSE /\ GP' = AddData(GP, xs, res.z)
                            /\ current_max' = m.val
                            /\ current_max_loc' = m.loc
                            /\ trajectory' = Append(trajectory, path)
                            /\ dist' = dist + walked
                            /\ UNCHANGED <<time, max_val, max_locs,
                                           has_history>>
                            /\ IF VisualizeTrajectory(vf) # ""
                               THEN /\ pc' = "error"
                                    /\ err' = VisualizeTrajectory(vf)
                                    /\ UNCHANGED <<loc, t>>
                               ELSE /\ loc' = NewPose(path)
                                    /\ t' = t + 1
                                    /\ pc' = IF t + 1 < T THEN "select"
                                             ELSE "export"
                                    /\ err' = err
    /\ UNCHANGED <<config, T, start_loc, metrics, log, exported, iters>>

\* The rows np.savetxt writes: column 0 and column 1 of the locations, then
\* the values.
ExportRows(gp) ==
    << [i \in 1..Len(gp) |-> gp[i].x[1]],
       [i \in 1..Len(gp) |-> gp[i].x[2]],
       [i \in 1..Len(gp) |-> gp[i].z] >>

\* np.savetxt after the loop; GP.xvals is None on an empty belief, and
\* indexing it raises.
Export ==
    /\ pc = "export"
    /\ IF GP = <<>>
       THEN pc' = "error" /\ err' = "TypeError" /\ UNCHANGED exported
       ELSE /\ exported' = [some |-> TRUE, rows |-> ExportRows(GP)]
            /\ pc' = "done"
            /\ err' = err
    /\ ClearLocals
    /\ UNCHANGED <<config, agent, T, t, start_loc, metrics, log, iters,
                   failed>>

\* As EntryDist, with the distance of the earlier calls kept.
EntryDistKept(d) == d

\* self.dist = 0 on entry of planner, whatever it was.
EntryDist(d) == 0

\* The horizons a caller asks of planner when `left` iterations of MaxIter
\* are left: none, one, or a long run that takes all of them.
CallLengths(left) == {n \in {0, 1, left} : n <= left}

\* planner(T): the history and the distance are reset, the loop starts.
PlannerCall ==
    /\ pc \in {"idle", "done"}
    /\ \E n \in CallLengths(MaxIter - iters) :
         /\ T' = n
         /\ pc' = IF n > 0 THEN "select" ELSE "export"
    /\ has_history' = TRUE
    /\ trajectory' = <<>>
    /\ dist' = EntryDist(dist)
    /\ t' = 0
    /\ start_loc' = loc
    /\ UNCHANGED <<config, GP, loc, time, current_max, current_max_loc,
                   max_val, max_locs, locals, err, failed, metrics, log,
                   exported, iters>>

----------------------------------------------------------------------------
(* __init__, step by step *)

\* The arguments of __init__, before its first statement.
InitConstruct ==
    /\ f_rew \in TagInputs
    /\ nonmyopic \in BOOLEAN
    /\ dim \in DimInputs
    /\ prior \in PriorFor(dim)
    /\ kernel \in Kernels
    /\ kernel_dataset \in BOOLEAN
    /\ kernel_file \in BOOLEAN
    /\ resolved = <<>>
    /\ constructed = FALSE
    /\ GP = <<>>
    /\ pc = "new"
    /\ err = ""
    /\ FreshFields

\* What train_kernel and load_kernel leave in the belief's observations.
BeliefAfterKernel(gp, branch) == gp

\* The branch on the kernel information.
ResolveKernel ==
    /\ pc = "new"
    /\ LET branch == KernelBranch(kernel_dataset, prior # <<>>, kernel,
                                  kernel_file)
       IN /\ resolved' = Append(resolved, branch)
          /\ GP' = BeliefAfterKernel(GP, branch)
    /\ pc' = "kernel_resolved"
    /\ UNCHANGED <<constructed, f_rew, nonmyopic, dim, prior, kernel,
                   kernel_dataset, kernel_file, loc, time, current_max,
                   current_max_loc, max_val, max_locs, has_history,
                   trajectory, dist, locals, err, T, t, start_loc, failed,
                   metrics, log, exported, iters>>

\* The prior dataset, if there is one, goes into the belief.
AddPrior ==
    /\ pc = "kernel_resolved"
    /\ GP' = IF prior # <<>>
             THEN AddData(GP, [i \in DOMAIN prior |-> prior[i].x],
                          [i \in DOMAIN prior |-> prior[i].z])
             ELSE GP
    /\ pc' = "prior_added"
    /\ UNCHANGED <<config, loc, time, current_max, current_max_loc, max_val,
                   max_locs, has_history, trajectory, dist, locals, err, T,
                   t, start_loc, failed, metrics, log, exported, iters>>

\* The dispatch on f_rew and the rest of __init__: the agent, or ValueError.
BindReward ==
    /\ pc = "prior_added"
    /\ constructed' = Constructs(f_rew)
    /\ pc' = IF Constructs(f_rew) THEN "idle" ELSE "error"
    /\ err' = IF Constructs(f_rew) THEN "" ELSE "ValueError"
    /\ current_max' = SentinelMax
    /\ current_max_loc' = <<0, 0>>
    /\ max_val' = None
    /\ max_locs' = None
    /\ UNCHANGED <<f_rew, nonmyopic, dim, prior, kernel, kernel_dataset,
                   kernel_file, resolved, GP, loc, time, has_history,
                   trajectory, dist, locals, T, t, start_loc, failed,
                   metrics, log, exported, iters>>

NextConstruct ==
    \/ ResolveKernel
    \/ AddPrior
    \/ BindReward

SpecConstruct == InitConstruct /\ [][NextConstruct]_vars

----------------------------------------------------------------------------
(* The specifications of the runs *)

Next ==
    \/ PlannerCall
    \/ SelectDirect
    \/ SelectLookahead
    \/ Execute
    \/ Export

Spec == Init /\ [][Next]_vars

\* The same agent with a tree search free to write to the belief object
\* it is handed.
NextAlias ==
    \/ PlannerCall
    \/ SelectDirect
    \/ SelectLookaheadAny
    \/ Execute
    \/ Export

SpecAlias == Init /\ [][NextAlias]_vars

\* The same agent run twice on the same collaborator responses.
NextTwice ==
    \/ PlannerCall
    \/ SelectDirectTwice
    \/ SelectLookahead
    \/ Execute
    \/ Export

SpecTwice == Init /\ [][NextTwice]_vars

----------------------------------------------------------------------------
(* Claims *)

\* The myopic selection of this iteration has returned or raised.
DirectSelectionOver ==
    /\ ~nonmyopic
    /\ \/ pc = "execute"
       \/ /\ pc = "error"
          /\ err \in {"IndexError", "AcquisitionError"}
          /\ failed = ""

AllNaN(val) == \A k \in DOMAIN val : val[k].nan

HasWarning == \E i \in DOMAIN log : log[i] = "warning"

\* C1: in myopic mode an empty candidate set ends the run normally: no
\* error reaches the caller of planner.
C1_EmptyCandidatesEndNormally ==
    (DirectSelectionOver /\ raised_at = 0 /\ DOMAIN actions = {})
        => (pc # "error" /\ err = "")

\* C2: an iteration whose action selection returned no trajectory makes no
\* call of the metrics sink: no recorded call carries a null sampling path.
C2_NoMetricsOnNullPath ==
    \A i \in DOMAIN metrics : metrics[i].path.some

\* C3: when at least one score is a number, choose_trajectory returns a
\* candidate whose score is the largest numeric score, never a lower or a
\* not-a-number one, and draws it from all the candidates that tie there.
C3_ChoosesMaxScore ==
    (DirectSelectionOver /\ raised_at = 0
       /\ \E k \in DOMAIN value : ~value[k].nan)
        => /\ pc # "error"
           /\ best_key \in DOMAIN value
           /\ ~value[best_key].nan
           /\ \A k \in DOMAIN value :
                ~value[k].nan => value[k].v <= value[best_key].v
           /\ best_val = value[best_key]
           /\ sampling_path = SomePath(actions[best_key])
           /\ pool = {k \in DOMAIN value :
                        /\ ~value[k].nan
                        /\ \A j \in DOMAIN value :
                             ~value[j].nan => value[j].v <= value[k].v}

\* Scores [1.0, 3.0, 3.0], and the last candidate returned.
C3_Witness ==
    /\ ~nonmyopic
    /\ pc = "execute"
    /\ DOMAIN value = 0..2
    /\ value[0] = Num(1) /\ value[1] = Num(3) /\ value[2] = Num(3)
    /\ best_key = 2

\* C4: when the candidate set is non-empty and every score is
\* not-a-number, choose_trajectory raises nothing and returns a candidate,
\* drawn from all the candidates.
C4_AllNaNStillReturns ==
    (DirectSelectionOver /\ raised_at = 0 /\ DOMAIN value # {}
       /\ AllNaN(value))
        => /\ pc # "error"
           /\ sampling_path.some
           /\ best_key \in DOMAIN value
           /\ sampling_path.path = actions[best_key]
           /\ pool = DOMAIN value

\* Three candidates, all not-a-number, and the last one returned.
C4_Witness ==
    /\ ~nonmyopic
    /\ pc = "execute"
    /\ DOMAIN value = 0..2
    /\ AllNaN(value)
    /\ best_key = 2
    /\ sampling_path.some

\* C5: whenever choose_trajectory takes the all-not-a-number fallback (a
\* random choice among all the candidates), a warning-level log event is
\* emitted in that iteration, and the fallback is entered by a test of the
\* scores, not by the except branch that catches an exception.
C5_FallbackLoggedAndExplicit ==
    (DirectSelectionOver /\ pc = "execute" /\ DOMAIN value # {}
       /\ AllNaN(value) /\ pool = DOMAIN value)
        => /\ HasWarning
           /\ ~fallback

\* C6, as stated: when the evaluator raises on a candidate, its score is
\* stored as not-a-number, the others are scored and the iteration goes on.
C6_EvaluatorErrorStoredAsNaN ==
    raised_at > 0
        => /\ pc # "error"
           /\ DOMAIN value = DOMAIN actions
           /\ value[raised_at - 1].nan

\* C6, amended: when the evaluator raises on a candidate, the error leaves
\* choose_trajectory and planner: only the candidates before it have a
\* score, no candidate is selected and the run ends there.
C6_EvaluatorErrorPropagates ==
    raised_at > 0
        => /\ pc = "error"
           /\ err = "AcquisitionError"
           /\ DOMAIN value = 0..(raised_at - 2)
           /\ best_key = -1
           /\ ~sampling_path.some

\* The evaluator raises on the second of three candidates.
C6_Witness ==
    /\ raised_at = 2
    /\ DOMAIN actions = 0..2
    /\ pc = "error"

RECURSIVE SumSamples(_)
SumSamples(trajs) ==
    IF trajs = <<>> THEN 0
    ELSE (Len(trajs[1]) - 1) + SumSamples(Tail(trajs))

\* C7: the belief never shrinks and each executed trajectory adds its
\* length minus one observations, once, after those already there; until
\* the first call of planner has exported, the belief holds the prior
\* observations plus the sum over the executed trajectories of
\* (length - 1).
C7_BeliefGrowsByTrajectory ==
    [][/\ Len(GP') >= Len(GP)
       /\ SubSeq(GP', 1, Len(GP)) = GP
       /\ IF pc = "execute" /\ Len(trajectory') > Len(trajectory)
          THEN /\ Len(GP') = Len(GP) + Len(sampling_path.path) - 1
               /\ trajectory' = Append(trajectory, sampling_path.path)
          ELSE GP' = GP
       /\ ~exported'.some => Len(GP') = Len(prior') + SumSamples(trajectory')
      ]_vars

\* Two trajectories executed in the first call, on top of a prior.
C7_Witness ==
    /\ ~exported.some
    /\ Len(trajectory) = 2
    /\ prior # <<>>
    /\ Len(GP) = 4

\* C8: the running maximum never decreases.
C8_RunningMaxMonotone ==
    [][current_max' >= current_max]_vars

\* The running maximum rose, and a lower sample taken later left it alone.
C8_Witness ==
    /\ current_max = 5
    /\ GP # <<>>
    /\ GP[Len(GP)].z = -1001

RECURSIVE MaxOf(_)
MaxOf(S) ==
    LET x == CHOOSE y \in S : TRUE
    IN IF S = {x} THEN x
       ELSE LET m == MaxOf(S \ {x}) IN IF x > m THEN x ELSE m

\* C9: once a batch has been collected, the running maximum is the largest
\* of all the values observed so far.
C9_RunningMaxIsTrueMax ==
    Len(GP) > Len(prior)
        => current_max = MaxOf({GP[i].z : i \in DOMAIN GP})

RECURSIVE Flatten(_)
Flatten(trajs) ==
    IF trajs = <<>> THEN <<>> ELSE trajs[1] \o Flatten(Tail(trajs))

RECURSIVE SumSegments(_)
SumSegments(points) ==
    IF Len(points) < 2 THEN 0
    ELSE SegLen(points[1], points[2]) + SumSegments(Tail(points))

\* C10: the accumulated distance is the sum of the lengths of the
\* consecutive segments of the realized path: the pose at the start of
\* planner, then the waypoints of every executed trajectory in order.
C10_DistanceIsPathLength ==
    dist = SumSegments(<<start_loc>> \o Flatten(trajectory))

\* Two trajectories executed: 3 + 4 from the start, then 5 + 4 + 3.
C10_Witness ==
    /\ Len(trajectory) = 2
    /\ Len(trajectory[2]) = 3
    /\ dist = 19

----------------------------------------------------------------------------
(* Claims on construction, failures, the export and predict_max *)

\* C11: construction succeeds exactly for the five supported reward tags;
\* for any other tag __init__ raises, no agent is produced, and nothing of
\* the loop ever runs on that tag.
C11_TagRejectedAtConstruction ==
    /\ constructed <=>
         f_rew \in {"mean", "info_gain", "mes", "exp_improve", "gumbel"}
    /\ ~constructed =>
         /\ pc = "error" /\ err = "ValueError"
         /\ iters = 0 /\ metrics = <<>> /\ log = <<>>
         /\ ~has_history /\ ~exported.some

\* A tag of the docstring that no branch binds, rejected by __init__.
C11_Witness ==
    /\ f_rew = "hotspot_info"
    /\ ~constructed
    /\ pc = "error"
    /\ err = "ValueError"

\* C12: with a dimensionality outside {2, 3} the agent aborts before the
\* loop: no action selection and no metrics call is ever made.
C12_DimensionRejectedAtConstruction ==
    dim \notin {2, 3}
        => /\ metrics = <<>>
           /\ best_key = -1
           /\ ~sampling_path.some

\* C13: in lookahead mode the agent's belief is the same after the call of
\* the tree search as before it, whatever the search does to the belief
\* object it was handed.
C13_PlannerLeavesBelief ==
    [][(pc = "select" /\ nonmyopic) => GP' = GP]_vars

\* C14: a failure of the environment sampler, the belief predictor or the
\* tree search (and of the acquisition function in a plot) reaches the
\* caller of planner as that failure and ends the run: the step that meets
\* it ends in the error, moves neither the pose nor the loop index, makes
\* no metrics call and no export, and puts no default in the belief; no
\* step follows an error.  A failure met before the observations are
\* collected leaves the belief, the history, the distance and the running
\* maximum as they were; the predictor failing in the plot that follows the
\* collection finds this iteration's observations, history and distance in
\* place.
C14_CollaboratorFailurePropagates ==
    [][/\ pc # "error"
       /\ failed' # failed =>
            /\ pc' = "error"
            /\ err' = failed'
            /\ loc' = loc
            /\ t' = t
            /\ metrics' = metrics
            /\ exported' = exported
            /\ IF pc = "execute" /\ failed' = "PredictorError"
               THEN /\ Plots(t)
                    /\ trajectory' = Append(trajectory, sampling_path.path)
                    /\ Len(GP') = Len(GP) + Len(sampling_path.path) - 1
                    /\ SubSeq(GP', 1, Len(GP)) = GP
                    /\ \A i \in (Len(GP) + 1)..Len(GP') :
                         GP'[i].z \in Samples
               ELSE /\ GP' = GP
                    /\ trajectory' = trajectory
                    /\ dist' = dist
                    /\ current_max' = current_max
      ]_vars

\* The sampler fails in the second iteration, after one executed
\* trajectory.
C14_Witness ==
    /\ failed = "SamplerError"
    /\ pc = "error"
    /\ err = "SamplerError"
    /\ Len(trajectory) = 1
    /\ t = 1

\* The dataset a fresh agent is given from an export: one location column
\* per row but the last, the values from the last row.
Reload(rows) ==
    [i \in 1..Len(rows[1]) |->
        [x |-> [a \in 1..(Len(rows) - 1) |-> rows[a][i]],
         z |-> rows[Len(rows)][i]]]

\* C15: the export holds one row per coordinate axis and one row of
\* values, and reloading it gives the observations of the exporting agent.
C15_ExportRoundTrips ==
    pc = "done"
        => /\ exported.some
           /\ Len(exported.rows) = dim + 1
           /\ Reload(exported.rows) = GP

\* C16: once the loop of planner has ended, the next step is the export of
\* the belief, also after no iteration and on a belief without
\* observations, and it leaves the belief as it is.
C16_ExportOnEveryTermination ==
    [][pc = "export"
         => /\ pc' = "done"
            /\ exported'.some
            /\ GP' = GP
      ]_vars

\* C17: predict_max on an empty belief returns the origin and zero without
\* a call of the predictor; the predictor is called only on a belief with
\* observations, and then it is called.
C17_DefaultOnEmptyBelief ==
    /\ pred.predicted => GP # <<>>
    /\ (pc = "execute" /\ GP = <<>>)
         => pred = [loc |-> <<0, 0>>, val |-> 0, predicted |-> FALSE]
    /\ (pc = "execute" /\ GP # <<>>) => pred.predicted

\* The first iteration of an agent without prior, past predict_max.
C17_Witness ==
    /\ pc = "execute"
    /\ iters = 1
    /\ GP = <<>>
    /\ pred.loc = <<0, 0>>
    /\ pred.val = 0
    /\ ~pred.predicted

\* C18: a second run from the same configuration, given the same
\* collaborator responses, selects the same candidate.
C18_SameSeedSameChoice ==
    (~nonmyopic /\ pc = "execute" /\ twin_key # -1) => twin_key = best_key

\* C19, as stated: after construction and before any call of planner the
\* running maximum is at its sentinel, the trajectory history is empty and
\* the accumulated distance is zero.
C19_HistoryEmptyAfterConstruction ==
    (constructed /\ pc = "idle")
        => /\ current_max = SentinelMax
           /\ current_max_loc = <<0, 0>>
           /\ has_history
           /\ trajectory = <<>>
           /\ dist = 0

\* C19, amended: after construction the running maximum is at its
\* sentinel while the history and the distance do not exist yet; planner
\* creates them on entry, empty and zero, before its first iteration.
C19_HistoryCreatedByPlanner ==
    /\ (constructed /\ pc = "idle")
         => /\ current_max = SentinelMax
            /\ current_max_loc = <<0, 0>>
            /\ ~has_history
    /\ (pc \in {"select", "export"} /\ t = 0)
         => /\ has_history
            /\ trajectory = <<>>
            /\ dist = 0

\* The first call of planner, entered and about to run iteration 0.
C19_Witness ==
    /\ pc = "select"
    /\ t = 0
    /\ T = 2
    /\ ~exported.some
    /\ has_history
    /\ trajectory = <<>>
    /\ current_max = SentinelMax

\* C20: collect_observations on n waypoints adds n - 1 observations, taken
\* at the waypoints after the first.
C20_SamplesAllButFirst ==
    [][(pc = "execute" /\ Len(trajectory') > Len(trajectory))
         => LET path == sampling_path.path
                n == Len(path)
            IN /\ Len(GP') = Len(GP) + n - 1
               /\ \A i \in 1..(n - 1) :
                    /\ GP'[Len(GP) + i].x[1] = path[i + 1][1]
                    /\ GP'[Len(GP) + i].x[2] = path[i + 1][2]
      ]_vars

----------------------------------------------------------------------------
(* Claims on the tracker's location, the pose, the metrics, the kernel,
   the parameters and the second call *)

\* C21: whenever the running maximum is not at its sentinel, the tracked
\* (location, value) pair is one of the (location, value) pairs that
\* collect_observations added to the belief.
C21_TrackedPairIsASample ==
    current_max # SentinelMax
        => \E i \in (Len(prior) + 1)..Len(GP) :
              /\ GP[i].z = current_max
              /\ <<GP[i].x[1], GP[i].x[2]>> = current_max_loc

\* C22: the pose changes only in the step that ends an iteration which
\* executed a trajectory, to that trajectory's final waypoint, and it
\* changes in every such step that ends without an error; the pose handed
\* to the action selection, the pose handed to the metrics sink and the
\* start point of the distance accumulation are the same pre-move pose.
C22_PoseChangesLast ==
    [][/\ loc' # loc
            => /\ pc = "execute"
               /\ sampling_path.some
               /\ loc' = sampling_path.path[Len(sampling_path.path)]
               /\ trajectory' = Append(trajectory, sampling_path.path)
               /\ pc' \in {"select", "export"}
       /\ (pc = "select" /\ pc' = "execute")
            => /\ loc' = loc
               /\ sel_pose' = loc
               /\ metrics'[Len(metrics')].loc = loc
       /\ (pc = "execute" /\ Len(trajectory') > Len(trajectory))
            => /\ sel_pose = loc
               /\ metrics[Len(metrics)].loc = loc
               /\ dist' = dist + SumSegments(<<loc>> \o sampling_path.path)
               /\ loc' = IF pc' = "error" THEN loc
                         ELSE sampling_path.path[Len(sampling_path.path)]
      ]_vars

\* Two iterations executed: the second one started from the final waypoint
\* of the first and moved the pose on.
C22_Witness ==
    /\ Len(trajectory) = 2
    /\ Len(metrics) = 2
    /\ metrics[2].loc = trajectory[1][Len(trajectory[1])]
    /\ metrics[2].loc # loc
    /\ loc = trajectory[2][Len(trajectory[2])]

\* C23: the metrics sink is called once per iteration, in the step that
\* selects, before the observations are collected: the record of iteration
\* t carries the belief, the pose, the running maximum and the distance as
\* they are before the trajectory of iteration t is executed, the distance
\* being the path length of iterations 0 .. t-1; no other step calls it.
C23_MetricsBeforeExecution ==
    [][IF pc = "select" /\ pc' = "execute"
       THEN /\ metrics' =
                 Append(metrics,
                        [t |-> t, nobs |-> Len(GP), loc |-> loc,
                         path |-> sampling_path',
                         dist |-> SumSegments(<<start_loc>>
                                              \o Flatten(trajectory)),
                         cmax |-> current_max])
            /\ Len(trajectory) = t
            /\ UNCHANGED <<GP, loc, current_max, dist, trajectory>>
       ELSE metrics' = metrics
      ]_vars

\* The record of iteration 1, made after one executed trajectory and
\* before the second is executed.
C23_Witness ==
    /\ pc = "execute"
    /\ t = 1
    /\ sampling_path.some
    /\ Len(metrics) = 2
    /\ metrics[2].t = 1
    /\ metrics[2].dist > 0
    /\ metrics[2].nobs = Len(GP)
    /\ metrics[2].nobs > metrics[1].nobs
    /\ metrics[2].loc # metrics[1].loc

\* C24, as stated: exactly one of the four kernel branches runs, the
\* hyperparameters are fitted from data whenever a kernel dataset is
\* supplied, and the prior dataset goes into the belief once, after the
\* branch.
C24_KernelDataAlwaysFitted ==
    pc # "new"
        => /\ Len(resolved) = 1
           /\ resolved[1] \in {"joint_fit", "kernel_fit", "load", "given"}
           /\ kernel_dataset => resolved[1] \in {"joint_fit", "kernel_fit"}
           /\ GP = IF pc = "kernel_resolved" THEN <<>> ELSE prior

\* C24, amended: exactly one of the four kernel branches runs; the
\* hyperparameters are fitted from data exactly when a kernel dataset is
\* supplied and the kernel is 'rbf' (jointly with the prior dataset if
\* there is one); otherwise the kernel file is loaded if there is one, else
\* the given values are kept; the prior dataset goes into the belief once,
\* after the branch.
C24_KernelBranchByAvailability ==
    /\ pc = "new" => (resolved = <<>> /\ GP = <<>>)
    /\ pc # "new"
        => /\ Len(resolved) = 1
           /\ (kernel_dataset /\ kernel = "rbf")
                => resolved[1] = IF prior # <<>> THEN "joint_fit"
                                 ELSE "kernel_fit"
           /\ ~(kernel_dataset /\ kernel = "rbf")
                => resolved[1] = IF kernel_file THEN "load" ELSE "given"
           /\ GP = IF pc = "kernel_resolved" THEN <<>> ELSE prior

\* A kernel dataset given with another kernel than 'rbf': the kernel file
\* is loaded, and the prior dataset is in the belief.
C24_Witness ==
    /\ pc = "idle"
    /\ kernel_dataset
    /\ kernel = "matern"
    /\ kernel_file
    /\ resolved = <<"load">>
    /\ prior # <<>>
    /\ GP = prior

\* C25, as stated: in lookahead mode the parameter handed to the tree
\* search follows the rule of the direct mode: a sample of maxima for
\* 'mes' and 'gumbel', the running maximum as a scalar for 'exp_improve',
\* none for the other variants.
C25_LookaheadParamAsDirect ==
    (nonmyopic /\ pc = "execute")
        => /\ f_rew = "mes" => param.kind = "sample"
           /\ f_rew = "gumbel" => param.kind = "gumbel_sample"
           /\ f_rew = "exp_improve"
                => param = [kind |-> "scalar", v |-> current_max]
           /\ f_rew \in {"mean", "info_gain"}
                => param = [kind |-> "none", v |-> 0]

\* C25, amended: in lookahead mode the parameter handed to the tree search
\* is the running maximum as a scalar for 'exp_improve' and none for every
\* other variant, 'mes' and 'gumbel' included; only the direct mode draws a
\* sample of maxima for these two, and hands 'exp_improve' a list.
C25_LookaheadParamScalarOrNone ==
    pc = "execute"
        => IF nonmyopic
           THEN param = IF f_rew = "exp_improve"
                        THEN [kind |-> "scalar", v |-> current_max]
                        ELSE [kind |-> "none", v |-> 0]
           ELSE /\ f_rew = "mes" => param.kind = "sample"
                /\ f_rew = "gumbel" => param.kind = "gumbel_sample"
                /\ f_rew = "exp_improve"
                     => param = [kind |-> "list", v |-> current_max]
                /\ f_rew \in {"mean", "info_gain"}
                     => param = [kind |-> "none", v |-> 0]

\* The tree search has returned a trajectory under 'mes', and was handed
\* no parameter.
C25_Witness ==
    /\ nonmyopic
    /\ pc = "execute"
    /\ f_rew = "mes"
    /\ sampling_path.some
    /\ param = [kind |-> "none", v |-> 0]

\* C26: the maxima the agent records mean the same in both modes: after a
\* lookahead selection, and after a direct selection under 'mes' or
\* 'gumbel', the agent's maxima values are the sampled maxima values and
\* its maxima locations the sampled maxima locations.
C26_MaximaMeanTheSame ==
    (pc = "execute" /\ (nonmyopic \/ f_rew \in {"mes", "gumbel"}))
        => /\ max_val = "maxima_values"
           /\ max_locs = "maxima_locations"

\* C27: a call of planner on an agent that has run planner before resets
\* the history to empty and the distance to zero and leaves the belief,
\* the pose and the running maximum as the earlier call left them; during
\* that call the distance is the length of its own path, from the pose the
\* earlier call ended at, while the belief holds the observations exported
\* by the earlier call and those of its own trajectories.
C27_SecondCallResetsHistoryOnly ==
    [][/\ (pc = "done" /\ pc' # "done")
            => /\ trajectory' = <<>>
               /\ dist' = 0
               /\ start_loc' = loc
               /\ UNCHANGED <<GP, loc, current_max, current_max_loc>>
       /\ (exported.some /\ pc' \in {"select", "execute", "export"})
            => /\ dist' = SumSegments(<<start_loc'>> \o Flatten(trajectory'))
               /\ Len(GP') = Len(exported.rows[1]) + SumSamples(trajectory')
               /\ [i \in 1..Len(exported.rows[1]) |-> GP'[i].z]
                    = exported.rows[3]
      ]_vars

\* A second call that has executed one trajectory, after a first call that
\* executed one and moved the pose.
C27_Witness ==
    /\ exported.some
    /\ pc = "export"
    /\ Len(trajectory) = 1
    /\ start_loc # <<0, 0>>
    /\ dist > 0
    /\ Len(exported.rows[1]) > Len(prior)
    /\ Len(GP) > Len(exported.rows[1])

====
